---------------------------- MODULE Spec2Model ----------------------------
(***************************************************************************)
(* node-gallery: the resource monitors (settings, webpage, sitemap) of     *)
(* resource_monitor.ts, the service layer of service.ts and the routes of  *)
(* routes.ts, as a state machine.                                          *)
(*                                                                         *)
(* Strings that the code takes apart (image paths, section names,          *)
(* exclusion patterns, size identifiers) are sequences of one-character    *)
(* strings, so that basename, dirname, split, join and the cache file name *)
(* are computed as the code computes them.  A handler of the code runs     *)
(* synchronously to its end (or to its first await), so one action is one  *)
(* handler; the files do not change while a synchronous handler runs.      *)
(***************************************************************************)
EXTENDS Integers, Sequences, FiniteSets, TLC

VARIABLES
    settingsFile,   \* gallery-settings.json on disk
    templateFile,   \* src/template/index.html on disk
    gallery,        \* the image files of gallery/: path -> version (0: absent)
    monitors,       \* hash, content (and rerenderReady) of the three monitors
    calls,          \* history: the getContent call the last handler made, in short
    last,           \* history: per monitor, its last completed getContent call
    checksInWindow, \* history: staleness checks of the webpage monitor since the last timer tick
    today,          \* the date, as new Date(Date.now()) gives it
    changes,        \* number of changes made to the files and the date so far
    server,         \* "starting", "listening", or "crashed" at startup
    response,       \* the response to the last GET / (at: the changes made before it)
    cache,          \* the files of cache/: cache path -> content
    requests,       \* the GET /image/... requests, each with where it stands
    cachePathCalls, \* history: the calls of getImageCachePath made on their own
    phase,          \* time since the last run of the setInterval callback (or the start)
    sinceCheck,     \* history: time since the last staleness check of the webpage monitor
    lastGap         \* history: time between the last two staleness checks of the webpage monitor

vars == <<settingsFile, templateFile, gallery, monitors, calls, last,
          checksInWindow, today, changes, server, response, cache, requests,
          cachePathCalls, phase, sinceCheck, lastGap>>

-----------------------------------------------------------------------------
(* Bounds of the model *)

\* the files (settings, template, gallery) change at most this often
MaxChanges == 2

-----------------------------------------------------------------------------
(* Character sequences *)

Undefined == [undefined |-> TRUE]

\* largest index of ch in s, 0 when absent
LastIndexOf(s, ch) ==
    LET hits == {i \in 1..Len(s) : s[i] = ch}
    IN  IF hits = {} THEN 0 ELSE CHOOSE i \in hits : \A j \in hits : j <= i

\* path.basename of a normalized relative path
basename(p) == SubSeq(p, LastIndexOf(p, "/") + 1, Len(p))

\* path.dirname of a normalized relative path
dirname(p) ==
    LET i == LastIndexOf(p, "/")
    IN  IF i = 0 THEN <<".">>
        ELSE IF i = 1 THEN <<"/">>
        ELSE SubSeq(p, 1, i - 1)

\* new RegExp(regex).test(s) for a pattern of literal characters: an
\* unanchored search
RegExpTest(regex, s) ==
    \E i \in 1..(Len(s) + 1) :
        /\ i + Len(regex) - 1 <= Len(s)
        /\ \A k \in 1..Len(regex) : s[i + k - 1] = regex[k]

\* Array.prototype.join
RECURSIVE join(_, _)
join(strs, sep) ==
    IF strs = <<>> THEN <<>>
    ELSE IF Len(strs) = 1 THEN strs[1]
    ELSE strs[1] \o sep \o join(Tail(strs), sep)

\* String.prototype.split on a one-character separator: the empty string
\* splits into one empty string
RECURSIVE split(_, _)
split(s, sepChar) ==
    LET hits == {i \in 1..Len(s) : s[i] = sepChar}
    IN  IF hits = {} THEN <<s>>
        ELSE LET i == CHOOSE h \in hits : \A j \in hits : h <= j
             IN  <<SubSeq(s, 1, i - 1)>> \o split(SubSeq(s, i + 1, Len(s)), sepChar)

Range(s) == {s[i] : i \in 1..Len(s)}

\* Array.prototype.includes
Includes(s, x) == \E i \in 1..Len(s) : s[i] = x

\* Array.prototype.filter, as the indices kept
RECURSIVE FilterSeq(_, _)
FilterSeq(s, keep) ==
    IF s = <<>> THEN <<>>
    ELSE (IF Head(s) \in keep THEN <<Head(s)>> ELSE <<>>) \o FilterSeq(Tail(s), keep)


-----------------------------------------------------------------------------
(* JavaScript objects *)

DigitValue(c) ==
    CASE c = "0" -> 0 [] c = "1" -> 1 [] c = "2" -> 2 [] c = "3" -> 3
      [] c = "4" -> 4 [] c = "5" -> 5 [] c = "6" -> 6 [] c = "7" -> 7
      [] c = "8" -> 8 [] c = "9" -> 9 [] OTHER -> -1

\* a property key that is an integer index: a canonical decimal numeral
IsIntegerKey(key) ==
    /\ Len(key) > 0
    /\ \A i \in 1..Len(key) : DigitValue(key[i]) >= 0
    /\ Len(key) > 1 => key[1] # "0"

RECURSIVE NumericValue(_)
NumericValue(key) ==
    IF key = <<>> THEN 0
    ELSE 10 * NumericValue(SubSeq(key, 1, Len(key) - 1)) + DigitValue(key[Len(key)])

\* the entries of `entries` whose key is an integer index, in ascending
\* numeric order
RECURSIVE IntegerKeysAscending(_)
IntegerKeysAscending(entries) ==
    LET idx == {i \in 1..Len(entries) : IsIntegerKey(entries[i].name)}
    IN  IF idx = {} THEN <<>>
        ELSE LET i == CHOOSE k \in idx : \A j \in idx :
                          NumericValue(entries[k].name) <= NumericValue(entries[j].name)
             IN  <<entries[i]>> \o
                 IntegerKeysAscending(FilterSeq(entries, Range(entries) \ {entries[i]}))

\* Object.entries of an object whose properties were created in the order of
\* `entries` (distinct keys): integer keys first, in ascending numeric order,
\* then the other keys in creation order
ObjectEntries(entries) ==
    IntegerKeysAscending(entries) \o
    FilterSeq(entries, {e \in Range(entries) : ~IsIntegerKey(e.name)})

-----------------------------------------------------------------------------
(* The files *)

\* relative image paths, in the order in which collectFilePaths lists them
PA == <<"a">>
PB == <<"b">>
PXB == <<"x", "/", "b">>
GalleryPaths == <<PA, PB, PXB>>

Templates == {"t1", "t2"}

Days == {"d1", "d2"}

Section(title, includes) ==
    [title |-> title, description |-> "", includes |-> includes]

SettingsDoc(site, exclude, featured, sections, cacheSz) ==
    [siteName |-> site, port |-> 3000, exclude |-> exclude, featured |-> featured,
     sections |-> sections, cacheSz |-> cacheSz]

EmptyDoc == SettingsDoc("", <<>>, <<>>, <<>>, <<>>)

\* a settings file: its JSON text, abstracted to the document it denotes
\* (sections in the order in which the text declares them)
WellFormed(doc) == [exists |-> TRUE, wellFormed |-> TRUE, doc |-> doc]
Malformed == [exists |-> TRUE, wellFormed |-> FALSE, doc |-> EmptyDoc]
Missing == [exists |-> FALSE, wellFormed |-> FALSE, doc |-> EmptyDoc]

S1 ==
    WellFormed(SettingsDoc("e1", << <<"x">> >>, <<PA>>,
        << [name |-> <<"t">>, section |-> Section("T", <<PB, PA>>)] >>,
        << <<"1">> >>))

S2 ==
    WellFormed(SettingsDoc("e2", << <<"b">> >>, <<PXB>>,
        << [name |-> <<"2">>, section |-> Section("Two", <<PA>>)],
           [name |-> <<"1">>, section |-> Section("One", <<PXB>>)] >>,
        << <<"2">>, <<"1">> >>))

SettingsFiles == {S1, S2, Malformed, Missing}

\* collectFilePaths(GALLERY_DIR): the files present, in directory order
collectFilePaths ==
    FilterSeq(GalleryPaths, {p \in Range(GalleryPaths) : gallery[p] > 0})


-----------------------------------------------------------------------------
(* Results of the code's functions.  A function of the code that reads or   *)
(* writes the monitors takes the state st = [mon, calls, last] and returns  *)
(* the state it leaves, whether it threw, and its value.                    *)

Return(st, val) == [st |-> st, threw |-> FALSE, val |-> val]
Throw(st) == [st |-> st, threw |-> TRUE, val |-> Undefined]

Monitors == {"settings", "webpage", "sitemap"}

\* what the history keeps of a monitor's last completed getContent call:
\* whether it was a getContent(true) that read the Resource and returned
\* normally, and then the Resource it read and the Content it returned
NoCall == [ok |-> FALSE, read |-> <<>>, ret |-> Undefined]

Completed(checkUpdate, o) ==
    IF checkUpdate /\ ~o.threw /\ o.read # <<>>
    THEN [ok |-> TRUE, read |-> o.read, ret |-> o.val]
    ELSE NoCall

-----------------------------------------------------------------------------
(* resource_monitor.ts and service.ts *)

RECURSIVE getContent(_, _, _)
RECURSIVE collectImagePathsFrom(_, _)

\* hashSync of a string, or of the `key:value` strings of a resource object
hashSync(input) == [sha |-> input]

\* computeHash of the three monitors
computeHash(m, resource) ==
    IF m = "settings" THEN hashSync(<<resource>>)
    ELSE IF m = "webpage"
    THEN hashSync(<< <<"settings", resource.settings>>,
                     <<"indexHtml", resource.indexHtml>>,
                     <<"imagePaths", resource.imagePaths>> >>)
    ELSE hashSync(<< <<"imagePaths", resource.imagePaths>> >>)

\* the value of a pattern `The({e(x) : x \in {v}})`, which is e(v) with v
\* computed once: the result of one step of a function, handed to the next
The(S) == CHOOSE x \in S : TRUE

\* shouldIncludeImage that tests no exclusion pattern
shouldIncludeImage_IncludesAll(st, imagePath) ==
    The({IF s.threw \/ s.val = Undefined THEN Throw(s.st)
         ELSE Return(s.st, TRUE) :
         s \in {getContent(st, "settings", TRUE)}})

\* shouldIncludeImage: settingsMonitor.getContent() with its default
\* checkUpdate = true, then the exclusion patterns against the basename
\* a shouldIncludeImage that reads the settings with getContent(false)
shouldIncludeImage_CachedSettings(st, imagePath) ==
    The({IF s.threw \/ s.val = Undefined THEN Throw(s.st)
         ELSE Return(s.st, ~\E i \in 1..Len(s.val.exclude) :
                                RegExpTest(s.val.exclude[i], basename(imagePath))) :
         s \in {getContent(st, "settings", FALSE)}})

shouldIncludeImage(st, imagePath) ==
    The({IF s.threw \/ s.val = Undefined THEN Throw(s.st)
         ELSE Return(s.st, ~\E i \in 1..Len(s.val.exclude) :
                                RegExpTest(s.val.exclude[i], basename(imagePath))) :
         s \in {getContent(st, "settings", TRUE)}})

\* Array.prototype.filter(shouldIncludeImage) over the listed files
collectImagePathsFrom(st, paths) ==
    IF paths = <<>> THEN Return(st, <<>>)
    ELSE The({IF h.threw THEN Throw(h.st)
              ELSE The({IF t.threw THEN Throw(t.st)
                        ELSE Return(t.st, (IF h.val THEN <<Head(paths)>> ELSE <<>>)
                                          \o t.val) :
                        t \in {collectImagePathsFrom(h.st, Tail(paths))}}) :
              h \in {shouldIncludeImage(st, Head(paths))}})

collectImagePaths(st) == collectImagePathsFrom(st, collectFilePaths)

\* getSettings(checkUpdate = false)
getSettings(st, checkUpdate) == getContent(st, "settings", checkUpdate)

\* FileMonitor.getResource: fs.readFileSync of the settings file
FileMonitor_getResource(st) ==
    IF settingsFile.exists THEN Return(st, settingsFile) ELSE Throw(st)

\* SettingsMonitor.transformResourceToContent: JSON.parse
SettingsMonitor_transformResourceToContent(st, settingsString) ==
    IF settingsString.wellFormed THEN Return(st, settingsString.doc) ELSE Throw(st)

\* WebpageResourceMonitor.getResource without the template in the Resource
WebpageResourceMonitor_getResource_NoTemplate(st) ==
    The({IF s.threw THEN Throw(s.st)
         ELSE The({IF c.threw THEN Throw(c.st)
                   ELSE Return(c.st, [settings |-> s.val, indexHtml |-> "t1",
                                      imagePaths |-> join(c.val, <<";">>)]) :
                   c \in {collectImagePaths(s.st)}}) :
         s \in {FileMonitor_getResource(st)}})

\* WebpageResourceMonitor.getResource
WebpageResourceMonitor_getResource(st) ==
    The({IF s.threw THEN Throw(s.st)
         ELSE The({IF c.threw THEN Throw(c.st)
                   ELSE Return(c.st, [settings |-> s.val, indexHtml |-> templateFile,
                                      imagePaths |-> join(c.val, <<";">>)]) :
                   c \in {collectImagePaths(s.st)}}) :
         s \in {FileMonitor_getResource(st)}})

\* SitemapResourceMonitor.getResource
SitemapResourceMonitor_getResource(st) ==
    The({IF c.threw THEN Throw(c.st)
         ELSE Return(c.st, [imagePaths |-> join(c.val, <<";">>)]) :
         c \in {collectImagePaths(st)}})

getResource(st, m) ==
    IF m = "settings" THEN FileMonitor_getResource(st)
    ELSE IF m = "webpage" THEN WebpageResourceMonitor_getResource(st)
    ELSE SitemapResourceMonitor_getResource(st)

\* create$image: the thumbnail src = image/<path>?sz=<size> in a link
\* href = image/<path>
create_image(imagePath, size) == [path |-> imagePath, sz |-> size]

\* a create$sectionImages that shows every image of the section
create_sectionImages_Unfiltered(imagePaths, imageSize, sectionName, existedImagePaths) ==
    [i \in 1..Len(imagePaths) |-> create_image(imagePaths[i], imageSize)]

\* create$sectionImages: the section's images that exist in the gallery
create_sectionImages(imagePaths, imageSize, sectionName, existedImagePaths) ==
    LET shown == FilterSeq(imagePaths, Range(existedImagePaths))
    IN  [i \in 1..Len(shown) |-> create_image(shown[i], imageSize)]

SectionSuffix == <<"-", "s", "e", "c", "t", "i", "o", "n">>

\* settings['cache-sz'][0]
DefaultSize(settings) ==
    IF settings.cacheSz = <<>> THEN <<"undefined">> ELSE settings.cacheSz[1]

\* create$section: a header and the images, at the first configured cache size
create_section(st, section, sectionName, imagePaths) ==
    The({IF s.threw \/ s.val = Undefined THEN Throw(s.st)
         ELSE Return(s.st,
                     [id |-> sectionName \o SectionSuffix, title |-> section.title,
                      description |-> section.description,
                      images |-> create_sectionImages(section.includes, DefaultSize(s.val),
                                                      sectionName, imagePaths)]) :
         s \in {getContent(st, "settings", FALSE)}})

\* the loop over Object.entries(sections)
RECURSIVE createSections(_, _, _)
createSections(st, entries, imagePaths) ==
    IF entries = <<>> THEN Return(st, <<>>)
    ELSE The({IF h.threw THEN Throw(h.st)
              ELSE The({IF t.threw THEN Throw(t.st)
                        ELSE Return(t.st, <<h.val>> \o t.val) :
                        t \in {createSections(h.st, Tail(entries), imagePaths)}}) :
              h \in {create_section(st, Head(entries).section, Head(entries).name,
                                    imagePaths)}})

\* an imagePathSet that holds the featured paths only
ImagePathSet_FeaturedOnly(settings) == Range(settings.featured)

\* imagePathSet: the paths that featured or the includes of a section list
ImagePathSet(settings) ==
    Range(settings.featured) \cup
        UNION {Range(settings.sections[i].section.includes) :
                  i \in 1..Len(settings.sections)}

\* the end of WebpageResourceMonitor.transformResourceToContent: the global
\* section, and the page
GlobalSection(settings, imagePaths, f, n, c2) ==
    IF c2.threw THEN Throw(c2.st)
    ELSE The({IF g.threw THEN Throw(g.st)
              ELSE Return(g.st, [template |-> templateFile,
                                 sections |-> <<f.val>> \o n.val \o <<g.val>>]) :
              g \in {create_section(c2.st,
                         Section("Photos:",
                                 FilterSeq(c2.val, Range(c2.val) \ ImagePathSet(settings))),
                         <<"global">>, imagePaths)}})

\* a webpage transform that reads the settings with getContent(false)
WebpageResourceMonitor_transformResourceToContent_NoCheck(st) ==
    The({IF s.threw \/ s.val = Undefined THEN Throw(s.st)
         ELSE
         The({IF c.threw THEN Throw(c.st)
              ELSE
              The({IF f.threw THEN Throw(f.st)
                   ELSE
                   The({IF n.threw THEN Throw(n.st)
                        ELSE The({GlobalSection(s.val, c.val, f, n, c2) :
                                  c2 \in {collectImagePaths(n.st)}}) :
                        n \in {createSections(f.st, ObjectEntries(s.val.sections),
                                              c.val)}}) :
                   f \in {create_section(c.st, Section("Featured:", s.val.featured),
                                         <<"featured">>, c.val)}}) :
              c \in {collectImagePaths(s.st)}}) :
         s \in {getContent(st, "settings", FALSE)}})

\* WebpageResourceMonitor.transformResourceToContent: the page, as the
\* template it was rendered into and the sections appended to #gallery
WebpageResourceMonitor_transformResourceToContent(st) ==
    The({IF s.threw \/ s.val = Undefined THEN Throw(s.st)
         ELSE
         The({IF c.threw THEN Throw(c.st)
              ELSE
              The({IF f.threw THEN Throw(f.st)
                   ELSE
                   The({IF n.threw THEN Throw(n.st)
                        ELSE The({GlobalSection(s.val, c.val, f, n, c2) :
                                  c2 \in {collectImagePaths(n.st)}}) :
                        n \in {createSections(f.st, ObjectEntries(s.val.sections),
                                              c.val)}}) :
                   f \in {create_section(c.st, Section("Featured:", s.val.featured),
                                         <<"featured">>, c.val)}}) :
              c \in {collectImagePaths(s.st)}}) :
         s \in {getContent(st, "settings", TRUE)}})

\* the static pages of the sitemap
SITEMAP == << <<>>, <<"sitemap.xml">>, <<"robots.txt">>, <<"favicon.ico">>, <<"index.css">> >>

\* one <url> entry
UrlEntry(siteName, url, nowDate) ==
    [loc |-> [site |-> siteName, url |-> url], lastmod |-> nowDate]

\* SitemapResourceMonitor.transformResourceToContent
SitemapResourceMonitor_transformResourceToContent(st, resource) ==
    The({IF s.threw \/ s.val = Undefined THEN Throw(s.st)
         ELSE LET siteName == s.val.siteName
                  nowDate == today
                  images == split(resource.imagePaths, ";")
              IN  Return(s.st,
                         [urls |->
                             [i \in 1..Len(SITEMAP) |->
                                 UrlEntry(siteName, SITEMAP[i], nowDate)]
                             \o [i \in 1..Len(images) |->
                                    UrlEntry(siteName, <<"image/">> \o images[i], nowDate)]]) :
         s \in {getSettings(st, FALSE)}})

transformResourceToContent(st, m, resource) ==
    IF m = "settings" THEN SettingsMonitor_transformResourceToContent(st, resource)
    ELSE IF m = "webpage" THEN WebpageResourceMonitor_transformResourceToContent(st)
    ELSE SitemapResourceMonitor_transformResourceToContent(st, resource)

\* what a getContent call did: the state it leaves, whether it threw, what it
\* returned, whether it called getResource (and what that returned), and
\* whether it called transformResourceToContent
Outcome(st, threw, val, checked, read, transformed) ==
    [st |-> st, threw |-> threw, val |-> val, checked |-> checked, read |-> read,
     transformed |-> transformed]

\* ResourceMonitor.getContent without the comparison of the hashes
ResourceMonitor_getContent_AlwaysTransforms(st, m, checkUpdateArg) ==
    LET checkUpdate == IF st.mon[m].content = Undefined THEN TRUE ELSE checkUpdateArg
    IN  IF ~checkUpdate
        THEN Outcome(st, FALSE, st.mon[m].content, FALSE, <<>>, FALSE)
        ELSE
        The({IF r.threw THEN Outcome(r.st, TRUE, Undefined, TRUE, <<>>, FALSE)
             ELSE
             LET newHash == computeHash(m, r.val)
             IN  The({IF t.threw
                      THEN Outcome(t.st, TRUE, Undefined, TRUE, <<r.val>>, TRUE)
                      ELSE Outcome([t.st EXCEPT !.mon[m].content = t.val], FALSE,
                                   t.val, TRUE, <<r.val>>, TRUE) :
                      t \in {transformResourceToContent(
                                 [r.st EXCEPT !.mon[m].hash = newHash], m, r.val)}}) :
             r \in {getResource(st, m)}})

\* ResourceMonitor.getContent without `this.hash = newHash`
ResourceMonitor_getContent_HashNotStored(st, m, checkUpdateArg) ==
    LET checkUpdate == IF st.mon[m].content = Undefined THEN TRUE ELSE checkUpdateArg
    IN  IF ~checkUpdate
        THEN Outcome(st, FALSE, st.mon[m].content, FALSE, <<>>, FALSE)
        ELSE
        The({IF r.threw THEN Outcome(r.st, TRUE, Undefined, TRUE, <<>>, FALSE)
             ELSE
             LET newHash == computeHash(m, r.val)
             IN  IF newHash # r.st.mon[m].hash
                 THEN The({IF t.threw
                           THEN Outcome(t.st, TRUE, Undefined, TRUE, <<r.val>>, TRUE)
                           ELSE Outcome([t.st EXCEPT !.mon[m].content = t.val], FALSE,
                                        t.val, TRUE, <<r.val>>, TRUE) :
                           t \in {transformResourceToContent(r.st, m, r.val)}})
                 ELSE Outcome(r.st, FALSE, r.st.mon[m].content, TRUE, <<r.val>>, FALSE) :
             r \in {getResource(st, m)}})

\* ResourceMonitor.getContent that checks for updates whatever its argument
ResourceMonitor_getContent_AlwaysChecks(st, m, checkUpdateArg) ==
    The({IF r.threw THEN Outcome(r.st, TRUE, Undefined, TRUE, <<>>, FALSE)
         ELSE
         LET newHash == computeHash(m, r.val)
         IN  IF newHash # r.st.mon[m].hash
             THEN The({IF t.threw
                       THEN Outcome(t.st, TRUE, Undefined, TRUE, <<r.val>>, TRUE)
                       ELSE Outcome([t.st EXCEPT !.mon[m].content = t.val], FALSE,
                                    t.val, TRUE, <<r.val>>, TRUE) :
                       t \in {transformResourceToContent(
                                  [r.st EXCEPT !.mon[m].hash = newHash], m, r.val)}})
             ELSE Outcome(r.st, FALSE, r.st.mon[m].content, TRUE, <<r.val>>, FALSE) :
         r \in {getResource(st, m)}})

\* ResourceMonitor.getContent: the hash is stored before the transform runs,
\* the content after it returned
\* a getContent that stores the hash once the transform has returned
ResourceMonitor_getContent_HashAfterTransform(st, m, checkUpdateArg) ==
    LET checkUpdate == IF st.mon[m].content = Undefined THEN TRUE ELSE checkUpdateArg
    IN  IF ~checkUpdate
        THEN Outcome(st, FALSE, st.mon[m].content, FALSE, <<>>, FALSE)
        ELSE
        The({IF r.threw THEN Outcome(r.st, TRUE, Undefined, TRUE, <<>>, FALSE)
             ELSE
             LET newHash == computeHash(m, r.val)
             IN  IF newHash # r.st.mon[m].hash
                 THEN The({IF t.threw
                           THEN Outcome(t.st, TRUE, Undefined, TRUE, <<r.val>>, TRUE)
                           ELSE Outcome([t.st EXCEPT !.mon[m].content = t.val,
                                                     !.mon[m].hash = newHash], FALSE,
                                        t.val, TRUE, <<r.val>>, TRUE) :
                           t \in {transformResourceToContent(r.st, m, r.val)}})
                 ELSE Outcome(r.st, FALSE, r.st.mon[m].content, TRUE, <<r.val>>, FALSE) :
             r \in {getResource(st, m)}})

\* a getContent that catches the error of getResource and returns the
\* cached content
ResourceMonitor_getContent_SwallowsReadError(st, m, checkUpdateArg) ==
    LET checkUpdate == IF st.mon[m].content = Undefined THEN TRUE ELSE checkUpdateArg
    IN  IF ~checkUpdate
        THEN Outcome(st, FALSE, st.mon[m].content, FALSE, <<>>, FALSE)
        ELSE
        The({IF r.threw THEN Outcome(r.st, FALSE, r.st.mon[m].content, TRUE, <<>>, FALSE)
             ELSE
             LET newHash == computeHash(m, r.val)
             IN  IF newHash # r.st.mon[m].hash
                 THEN The({IF t.threw
                           THEN Outcome(t.st, TRUE, Undefined, TRUE, <<r.val>>, TRUE)
                           ELSE Outcome([t.st EXCEPT !.mon[m].content = t.val], FALSE,
                                        t.val, TRUE, <<r.val>>, TRUE) :
                           t \in {transformResourceToContent(
                                      [r.st EXCEPT !.mon[m].hash = newHash], m, r.val)}})
                 ELSE Outcome(r.st, FALSE, r.st.mon[m].content, TRUE, <<r.val>>, FALSE) :
             r \in {getResource(st, m)}})

ResourceMonitor_getContent(st, m, checkUpdateArg) ==
    LET checkUpdate == IF st.mon[m].content = Undefined THEN TRUE ELSE checkUpdateArg
    IN  IF ~checkUpdate
        THEN Outcome(st, FALSE, st.mon[m].content, FALSE, <<>>, FALSE)
        ELSE
        The({IF r.threw THEN Outcome(r.st, TRUE, Undefined, TRUE, <<>>, FALSE)
             ELSE
             LET newHash == computeHash(m, r.val)
             IN  IF newHash # r.st.mon[m].hash
                 THEN The({IF t.threw
                           THEN Outcome(t.st, TRUE, Undefined, TRUE, <<r.val>>, TRUE)
                           ELSE Outcome([t.st EXCEPT !.mon[m].content = t.val], FALSE,
                                        t.val, TRUE, <<r.val>>, TRUE) :
                           t \in {transformResourceToContent(
                                      [r.st EXCEPT !.mon[m].hash = newHash], m, r.val)}})
                 ELSE Outcome(r.st, FALSE, r.st.mon[m].content, TRUE, <<r.val>>, FALSE) :
             r \in {getResource(st, m)}})

\* WebpageResourceMonitor.getContent: the cooldown
\* a getContent that clears rerenderReady once the check has returned
WebpageResourceMonitor_getContent_ClearsAfterCheck(st, checkUpdate) ==
    IF checkUpdate /\ st.mon.webpage.rerenderReady
    THEN The({IF r.threw THEN r
              ELSE [r EXCEPT !.st.mon.webpage.rerenderReady = FALSE] :
              r \in {ResourceMonitor_getContent(st, "webpage", TRUE)}})
    ELSE ResourceMonitor_getContent(st, "webpage", FALSE)

WebpageResourceMonitor_getContent(st, checkUpdate) ==
    IF checkUpdate /\ st.mon.webpage.rerenderReady
    THEN ResourceMonitor_getContent([st EXCEPT !.mon.webpage.rerenderReady = FALSE],
                                    "webpage", TRUE)
    ELSE ResourceMonitor_getContent(st, "webpage", FALSE)

\* a getContent call on monitor m, recorded in st.calls with the monitor's
\* fields before and after it and the monitor's previous call
getContent(st, m, checkUpdate) ==
    The({[st |-> [o.st EXCEPT
                     !.calls = Append(@, [mon |-> m, arg |-> checkUpdate,
                                          before |-> st.mon[m], prev |-> st.last[m],
                                          checked |-> o.checked, read |-> o.read,
                                          transformed |-> o.transformed,
                                          threw |-> o.threw, ret |-> o.val,
                                          after |-> o.st.mon[m]]),
                     !.last[m] = Completed(checkUpdate, o)],
          threw |-> o.threw, val |-> o.val] :
         o \in {IF m = "webpage" THEN WebpageResourceMonitor_getContent(st, checkUpdate)
                ELSE ResourceMonitor_getContent(st, m, checkUpdate)}})

-----------------------------------------------------------------------------
(* The monitors as a library: any caller may call getContent on any of the  *)
(* three exported monitors, with either argument, while the files change    *)
(* and the cooldown timer ticks.                                            *)

NewMonitors ==
    [settings |-> [hash |-> Undefined, content |-> Undefined],
     webpage |-> [hash |-> Undefined, content |-> Undefined, rerenderReady |-> TRUE],
     sitemap |-> [hash |-> Undefined, content |-> Undefined]]

\* the staleness checks (getResource, computeHash and the comparison) that
\* the webpage monitor made in a handler
WebpageChecks(cs) ==
    Cardinality({i \in 1..Len(cs) :
                    cs[i].mon = "webpage" /\ cs[i].checked /\ cs[i].read # <<>>})

\* the history counts checks per window up to this number
MaxChecksCounted == 2

Min(a, b) == IF a <= b THEN a ELSE b

\* what the staleness check of a call found: it was not made ("unchecked"),
\* getResource threw ("failed"), no hash was stored yet ("first"), or the hash
\* of the Resource read was the stored one ("same") or not ("changed")
Found(call) ==
    IF ~call.checked THEN "unchecked"
    ELSE IF call.read = <<>> THEN "failed"
    ELSE IF call.before.hash = Undefined THEN "first"
    ELSE IF computeHash(call.mon, call.read[1]) = call.before.hash THEN "same"
    ELSE "changed"

\* what the history keeps of a call of the last handler; repeat: the call
\* follows a getContent(true) on its monitor that returned normally after
\* reading the Resource that this call read; defined: the monitor held
\* Content when the call was made
Short(call) ==
    [mon |-> call.mon, arg |-> call.arg, found |-> Found(call),
     transformed |-> call.transformed, threw |-> call.threw,
     repeat |-> call.prev.ok /\ call.read = call.prev.read,
     defined |-> call.before.content # Undefined]

\* the handler that ends with the state `st` found Content in the settings
\* monitor and left another hash or other Content there
Reread(st) ==
    /\ monitors.settings.content # Undefined
    /\ st.mon.settings # monitors.settings

\* the monitors, and their history, after a handler returned or threw with
\* the state `st`
Handled(st) ==
    /\ monitors' = st.mon
    /\ calls' = <<Short(st.calls[Len(st.calls)]) @@ [reread |-> Reread(st)]>>

Current == [mon |-> monitors, calls |-> <<>>, last |-> last]

Files == <<settingsFile, templateFile, gallery, today, changes>>

Server == <<server, response>>

Images == <<cache, requests, cachePathCalls>>

Clock == <<phase, sinceCheck, lastGap>>

\* WebpageResourceMonitor.RERENDER_INTERVAL, in units of 500 ms
RERENDER_INTERVAL == 2

\* no GET / has been answered
NoResponse == [at |-> -1, seq |-> 0, threw |-> FALSE, body |-> Undefined]

\* a file of cache/ that does not exist, and one that the shell has created
\* or truncated and jpegoptim has not written
NoFile == [exists |-> FALSE, version |-> 0]

EmptyFile == [exists |-> TRUE, version |-> 0]

\* the size identifiers a request asks for
Sizes == {<<"1">>, <<"3">>}

\* ctx.request.query: with a size, or without one
NoSize == [page |-> <<"1">>]

Queries == {[sz |-> z] : z \in Sizes} \cup {NoSize}

\* number of GET /image requests made
MaxReq == 3

\* getImageCachePath
CACHE_DIR == <<"c">>

\* a getImageCachePath that keeps the leading dot of the directory
getImageCachePath_KeepsDot(imagePath, size) ==
    CACHE_DIR \o <<"/">> \o join(split(dirname(imagePath), "/"), <<"_">>)
    \o <<"_">> \o size \o <<"_">> \o basename(imagePath)

getImageCachePath(imagePath, size) ==
    LET dirString == join(split(dirname(imagePath), "/"), <<"_">>)
        dirStringWithoutLeadingDot ==
            IF dirString # <<>> /\ Head(dirString) = "." THEN Tail(dirString)
            ELSE dirString
        fileName == basename(imagePath)
    IN  CACHE_DIR \o <<"/">> \o dirStringWithoutLeadingDot \o <<"_">> \o size
        \o <<"_">> \o fileName

CachePaths == {getImageCachePath(p, z) : p \in Range(GalleryPaths), z \in Sizes}

\* a request that has not been made
Idle == [pc |-> "idle"]

NoImages ==
    /\ cache = [f \in CachePaths |-> NoFile]
    /\ requests = [r \in 1..MaxReq |-> Idle]
    /\ cachePathCalls = <<>>

\* the images that come and go while the monitors are called
MonitoredPaths == {PA, PXB}

InitMonitors ==
    /\ settingsFile \in SettingsFiles
    /\ templateFile = "t1"
    /\ gallery \in [Range(GalleryPaths) -> {0, 1}]
    /\ \A p \in Range(GalleryPaths) \ MonitoredPaths : gallery[p] = 0
    /\ today = "d1"
    /\ monitors = NewMonitors
    /\ calls = <<>>
    /\ last = [m \in Monitors |-> NoCall]
    /\ checksInWindow = 0
    /\ changes = 0
    /\ server = "starting"
    /\ response = NoResponse
    /\ NoImages
    /\ phase = 0
    /\ sinceCheck = RERENDER_INTERVAL
    /\ lastGap = RERENDER_INTERVAL

\* the settings file is edited, replaced by a malformed one, or removed
WriteSettings ==
    /\ changes < MaxChanges
    /\ \E f \in SettingsFiles \ {settingsFile} : settingsFile' = f
    /\ changes' = changes + 1
    /\ calls' = <<>>
    /\ UNCHANGED <<templateFile, gallery, today, monitors, last, checksInWindow, Server, Images, Clock>>

\* the template is edited
WriteTemplate ==
    /\ changes < MaxChanges
    /\ \E t \in Templates \ {templateFile} : templateFile' = t
    /\ changes' = changes + 1
    /\ calls' = <<>>
    /\ UNCHANGED <<settingsFile, gallery, today, monitors, last, checksInWindow, Server, Images, Clock>>

\* an image is added to the gallery
AddImage ==
    /\ changes < MaxChanges
    /\ \E p \in MonitoredPaths :
          /\ gallery[p] = 0
          /\ gallery' = [gallery EXCEPT ![p] = 1]
    /\ changes' = changes + 1
    /\ calls' = <<>>
    /\ UNCHANGED <<settingsFile, templateFile, today, monitors, last, checksInWindow, Server, Images, Clock>>

\* an image is removed from the gallery
RemoveImage ==
    /\ changes < MaxChanges
    /\ \E p \in Range(GalleryPaths) :
          /\ gallery[p] > 0
          /\ gallery' = [gallery EXCEPT ![p] = 0]
    /\ changes' = changes + 1
    /\ calls' = <<>>
    /\ UNCHANGED <<settingsFile, templateFile, today, monitors, last, checksInWindow, Server, Images, Clock>>

\* midnight passes
NextDay ==
    /\ changes < MaxChanges
    /\ \E d \in Days \ {today} : today' = d
    /\ changes' = changes + 1
    /\ calls' = <<>>
    /\ UNCHANGED <<settingsFile, templateFile, gallery, monitors, last, checksInWindow, Server, Images, Clock>>

\* a setInterval callback that leaves rerenderReady as it is
Timer_NoReset ==
    /\ server # "crashed"
    /\ monitors' = monitors
    /\ checksInWindow' = 0
    /\ calls' = <<>>
    /\ UNCHANGED <<Files, last, Server, Images, Clock>>

\* the setInterval callback of the WebpageResourceMonitor constructor
Timer ==
    /\ server # "crashed"
    /\ monitors' = [monitors EXCEPT !.webpage.rerenderReady = TRUE]
    /\ checksInWindow' = 0
    /\ calls' = <<>>
    /\ UNCHANGED <<Files, last, Server, Images, Clock>>

\* a caller calls getContent(checkUpdate) on one of the exported monitors
CallGetContent ==
    /\ \E m \in Monitors, checkUpdate \in BOOLEAN :
          LET r == getContent(Current, m, checkUpdate)
          IN  Handled(r.st) /\ last' = r.st.last
    /\ UNCHANGED <<Files, checksInWindow, Server, Images, Clock>>

NextMonitors ==
    \/ WriteSettings
    \/ AddImage
    \/ RemoveImage
    \/ Timer
    \/ CallGetContent

SpecMonitors == InitMonitors /\ [][NextMonitors]_vars

-----------------------------------------------------------------------------
(* The server: server.ts and the routes GET / and GET /sitemap.xml.         *)

\* server.ts: `const port = getSettings().port` and app.listen; an exception
\* at the top level of the module ends the process
Listen ==
    /\ server = "starting"
    /\ LET r == getSettings(Current, FALSE)
       IN  /\ Handled(r.st)
           /\ server' = IF r.threw THEN "crashed" ELSE "listening"
    /\ UNCHANGED <<Files, last, checksInWindow, response, Images, Clock>>

\* router.get('/'): the body is webpageResourceMonitor.getContent(true)
GetIndexHandler ==
    /\ server = "listening"
    /\ LET r == getContent(Current, "webpage", TRUE)
       IN  /\ Handled(r.st)
           /\ response' = [at |-> changes, seq |-> 1 - response.seq,
                            threw |-> r.threw, body |-> r.val]
           /\ checksInWindow' =
                  Min(MaxChecksCounted, checksInWindow + WebpageChecks(r.st.calls))
    /\ UNCHANGED <<Files, last, server, Images>>

GetIndex == GetIndexHandler /\ UNCHANGED Clock

\* router.get('/sitemap.xml'): the body is sitemapResourceMonitor.getContent()
GetSitemapXml ==
    /\ server = "listening"
    /\ LET r == getContent(Current, "sitemap", TRUE)
       IN  Handled(r.st)
    /\ UNCHANGED <<Files, last, checksInWindow, Server, Images, Clock>>

NextServer ==
    \/ Listen
    \/ GetIndex
    \/ GetSitemapXml
    \/ Timer
    \/ WriteSettings
    \/ WriteTemplate
    \/ AddImage
    \/ RemoveImage

SpecServer == InitMonitors /\ [][NextServer]_vars

\* setInterval keeps firing
FairSpecServer == InitMonitors /\ [][NextServer]_vars /\ WF_vars(Timer)

-----------------------------------------------------------------------------
(* The server with a clock: setInterval runs its callback every            *)
(* RERENDER_INTERVAL, counted from the construction of the monitor, and a   *)
(* GET / is answered at some time between two runs.                          *)

\* time passes; at the end of the interval the setInterval callback runs
Elapse ==
    /\ server # "crashed"
    /\ phase' = (phase + 1) % RERENDER_INTERVAL
    /\ sinceCheck' = Min(RERENDER_INTERVAL, sinceCheck + 1)
    /\ IF phase + 1 = RERENDER_INTERVAL
       THEN /\ monitors' = [monitors EXCEPT !.webpage.rerenderReady = TRUE]
            /\ checksInWindow' = 0
       ELSE UNCHANGED <<monitors, checksInWindow>>
    /\ calls' = <<>>
    /\ UNCHANGED <<Files, last, Server, Images, lastGap>>

\* router.get('/') at the current time: a staleness check of the webpage
\* monitor is noted with the time since the one before it
GetIndexAt ==
    /\ GetIndexHandler
    /\ phase' = phase
    /\ IF WebpageChecks(getContent(Current, "webpage", TRUE).st.calls) > 0
       THEN sinceCheck' = 0 /\ lastGap' = sinceCheck
       ELSE UNCHANGED <<sinceCheck, lastGap>>

NextCooldown ==
    \/ Listen
    \/ GetIndexAt
    \/ Elapse

SpecCooldown == InitMonitors /\ [][NextCooldown]_vars

\* the server answering GET /sitemap.xml while days pass and images come and go
NextSitemap ==
    \/ Listen
    \/ GetSitemapXml
    \/ NextDay
    \/ AddImage
    \/ RemoveImage

SpecSitemap == InitMonitors /\ [][NextSitemap]_vars


-----------------------------------------------------------------------------
(* The image cache: the route GET /image/... with compressImage and         *)
(* compressAndGetImageCachePath of service.ts.  The handler runs to its      *)
(* first await, which is the exec of compressImage; the shell of exec then   *)
(* opens the output file of the redirection, which creates or truncates it,  *)
(* and jpegoptim writes the compressed image there or fails.  The directory  *)
(* cache/ exists.                                                            *)

\* an fs.existsSync that finds no file
existsSync_Never(path) == FALSE

\* fs.existsSync on a path of cache/
existsSync(path) == cache[path].exists

\* imageCachePath.substring(CACHE_DIR.length + 1)
RelativeCachePath(imageCachePath) ==
    SubSeq(imageCachePath, Len(CACHE_DIR) + 2, Len(imageCachePath))

\* the requests that have been answered
Answered == {q \in 1..MaxReq : requests[q].pc \in {"done", "failed"}}

\* compressAndGetImageCachePath up to its await: the request as it stands
\* when the handler yields or returns
compressAndGetImageCachePath(imagePath, size) ==
    LET imageCachePath == getImageCachePath(imagePath, size)
        found == existsSync(imageCachePath)
    IN  [pc |-> IF found THEN "done" ELSE "spawned",
         path |-> imagePath, size |-> size, cachePath |-> imageCachePath,
         sawFile |-> found, spawned |-> ~found, after |-> Answered,
         ret |-> IF found THEN RelativeCachePath(imageCachePath) ELSE <<>>]

\* the route sends the original image (the history keeps the query of such a
\* request, and not the requests answered before it)
SendOriginal(imagePath, query) ==
    [pc |-> "done", path |-> imagePath, size |-> <<>>, cachePath |-> <<>>,
     sawFile |-> FALSE, spawned |-> FALSE, after |-> {}, ret |-> imagePath,
     query |-> query]

\* a route that takes every size a request asks for
SupportedSize_Any(settings, query) ==
    IF "sz" \in DOMAIN query THEN query.sz ELSE <<>>

\* settings['cache-sz'].includes(querySize) ? querySize : ''
SupportedSize(settings, query) ==
    IF "sz" \in DOMAIN query /\ Includes(settings.cacheSz, query.sz) THEN query.sz
    ELSE <<>>

\* router.get('/image/(.*)') up to its first await
GetImage ==
    /\ server = "listening"
    /\ \E r \in 1..MaxReq, imagePath \in MonitoredPaths, query \in Queries :
          /\ requests[r].pc = "idle"
          /\ \A q \in 1..(r - 1) : requests[q].pc # "idle"
          /\ LET s == getSettings(Current, FALSE)
             IN  /\ Handled(s.st)
                 /\ requests' = [requests EXCEPT ![r] =
                        IF s.threw \/ s.val = Undefined
                        THEN [SendOriginal(imagePath, query) EXCEPT
                                  !.pc = "failed", !.ret = <<>>]
                        ELSE IF SupportedSize(s.val, query) # <<>>
                        THEN compressAndGetImageCachePath(imagePath,
                                                          SupportedSize(s.val, query))
                        ELSE SendOriginal(imagePath, query)]
    /\ UNCHANGED <<Files, last, checksInWindow, Server, cache, cachePathCalls, Clock>>

\* the shell of exec opens the target of `> outputImagePath`
ShellOpensOutput ==
    /\ \E r \in 1..MaxReq :
          /\ requests[r].pc = "spawned"
          /\ cache' = [cache EXCEPT ![requests[r].cachePath] = EmptyFile]
          /\ requests' = [requests EXCEPT ![r].pc = "running"]
    /\ UNCHANGED <<Files, monitors, calls, last, checksInWindow, Server, cachePathCalls, Clock>>

\* jpegoptim exits and the callback of exec settles the promise: the request
\* goes on after its await, or is rejected
JpegoptimExits ==
    /\ \E r \in 1..MaxReq :
          /\ requests[r].pc = "running"
          /\ IF gallery[requests[r].path] > 0
             THEN /\ cache' = [cache EXCEPT ![requests[r].cachePath] =
                                  [exists |-> TRUE, version |-> gallery[requests[r].path]]]
                  /\ requests' = [requests EXCEPT
                         ![r].pc = "done",
                         ![r].ret = RelativeCachePath(requests[r].cachePath)]
             ELSE /\ cache' = cache
                  /\ requests' = [requests EXCEPT ![r].pc = "failed"]
    /\ UNCHANGED <<Files, monitors, calls, last, checksInWindow, Server, cachePathCalls, Clock>>

\* an image of the gallery is replaced by another one of the same name
ReplaceImage ==
    /\ changes < MaxChanges
    /\ \E p \in MonitoredPaths :
          /\ gallery[p] = 1
          /\ gallery' = [gallery EXCEPT ![p] = 2]
    /\ changes' = changes + 1
    /\ calls' = <<>>
    /\ UNCHANGED <<settingsFile, templateFile, today, monitors, last, checksInWindow, Server, Images, Clock>>

NextImage ==
    \/ Listen
    \/ GetImage
    \/ ShellOpensOutput
    \/ JpegoptimExits
    \/ ReplaceImage
    \/ RemoveImage

SpecImage == InitMonitors /\ [][NextImage]_vars

-----------------------------------------------------------------------------
(* getImageCachePath of service.ts as a function: it is called with the     *)
(* path of a GET /image/<path> and a size of the cache-sz list.              *)

\* number of calls of getImageCachePath that are compared
MaxCachePathCalls == 2

\* paths a GET /image/<path> can name: in the top directory, in a directory,
\* in a hidden directory, in a nested directory, in a directory with '_'
PDotXB == <<".", "x", "/", "b">>
PXYB == <<"x", "/", "y", "/", "b">>
PX_YB == <<"x", "_", "y", "/", "b">>
RequestPaths == {PA, PXB, PDotXB, PXYB, PX_YB}

\* the sizes the cache-sz lists of the settings hold
ConfiguredSizes == Range(S1.doc.cacheSz) \cup Range(S2.doc.cacheSz)

\* getImageCachePath(imagePath, size) is called and returns
CallGetImageCachePath ==
    /\ Len(cachePathCalls) < MaxCachePathCalls
    /\ \E imagePath \in RequestPaths, size \in ConfiguredSizes :
          cachePathCalls' = Append(cachePathCalls,
              [imagePath |-> imagePath, size |-> size,
               ret |-> getImageCachePath(imagePath, size)])
    /\ UNCHANGED <<Files, monitors, calls, last, checksInWindow, Server, cache, requests, Clock>>

NextCachePath == CallGetImageCachePath

SpecCachePath == InitMonitors /\ [][NextCachePath]_vars

-----------------------------------------------------------------------------
(* The getContent calls that can be made in the current state: each of the  *)
(* three monitors, either argument, with the calls nested in them.          *)

CallsOf(m, checkUpdate) == getContent(Current, m, checkUpdate).st.calls

AllCalls ==
    CallsOf("settings", TRUE) \o CallsOf("settings", FALSE)
    \o CallsOf("webpage", TRUE) \o CallsOf("webpage", FALSE)
    \o CallsOf("sitemap", TRUE) \o CallsOf("sitemap", FALSE)

\* the staleness check of call c read a Resource
ReadResource(c) == c.read # <<>>

\* C1: a getContent(true) that follows a getContent(true) which returned
\* normally, and reads the same Resource (or none), does not run the
\* transform, leaves hash and content as they were, and returns the same
\* Content
C1_UnchangedResourceNotTransformed ==
    LET all == AllCalls IN \A n \in DOMAIN all : LET c == all[n] IN
        (/\ c.arg
         /\ c.prev.ok
         /\ c.checked => c.read = c.prev.read)
        => /\ ~c.transformed
           /\ ~c.threw
           /\ c.after.hash = c.before.hash
           /\ c.after.content = c.before.content
           /\ c.ret = c.prev.ret

\* a second getContent(true) has just read the Resource its predecessor read,
\* on a monitor that holds Content, after the files changed
C1_Witness ==
    /\ changes > 0
    /\ calls # <<>>
    /\ LET c == calls[Len(calls)]
       IN  c.arg /\ c.repeat /\ c.found = "same" /\ c.defined /\ ~c.threw

\* the image entries of a sitemap: the <url> entries after the static ones
ImageUrls(sitemap) ==
    [i \in 1..(Len(sitemap.urls) - Len(SITEMAP)) |-> sitemap.urls[Len(SITEMAP) + i].loc.url]

\* C2: on the settings and the sitemap monitor, a getContent(true) that reads
\* a Resource whose hash is not the stored one and returns normally has run
\* the transform on that Resource, returns its Content, and leaves the hash
\* of that Resource stored
C2_ChangedResourceRecomputed ==
    LET all == AllCalls IN \A n \in DOMAIN all : LET c == all[n] IN
        (/\ c.mon \in {"settings", "sitemap"}
         /\ c.arg
         /\ ~c.threw
         /\ ReadResource(c)
         /\ computeHash(c.mon, c.read[1]) # c.before.hash)
        => /\ c.transformed
           /\ c.after.hash = computeHash(c.mon, c.read[1])
           /\ c.after.content = c.ret
           /\ c.mon = "settings" => c.read[1].wellFormed /\ c.ret = c.read[1].doc
           /\ c.mon = "sitemap" =>
                 LET paths == split(c.read[1].imagePaths, ";")
                 IN  ImageUrls(c.ret) = [k \in 1..Len(paths) |-> <<"image/">> \o paths[k]]

\* the settings or the sitemap monitor, holding the hash of another Resource,
\* has just read a changed Resource and recomputed its Content
C2_Witness ==
    /\ calls # <<>>
    /\ LET c == calls[Len(calls)]
       IN  /\ c.mon \in {"settings", "sitemap"}
           /\ c.arg /\ c.found = "changed" /\ c.transformed /\ ~c.threw /\ c.defined
           /\ monitors[c.mon].hash = computeHash(c.mon, getResource(Current, c.mon).val)


\* what a top-level getContent(checkUpdate) on m does to the monitors (the
\* cooldown flag apart), and what it returns
EffectOf(m, checkUpdate) ==
    LET r == getContent(Current, m, checkUpdate)
    IN  [mon |-> [r.st.mon EXCEPT !.webpage.rerenderReady = TRUE],
         threw |-> r.threw, val |-> r.val]

\* C3: on a monitor whose content is undefined, getContent(false) does what
\* getContent(true) does: it reads the Resource, stores its hash and runs the
\* transform; the webpage monitor does so also while rerenderReady is false
C3_FirstCallRunsTransform ==
    /\ LET all == AllCalls IN \A n \in DOMAIN all : LET c == all[n] IN
          (~c.arg /\ c.before.content = Undefined)
          => /\ c.checked
             /\ ReadResource(c) => /\ c.after.hash = computeHash(c.mon, c.read[1])
                                   /\ c.transformed
    /\ \A m \in Monitors :
          monitors[m].content = Undefined => EffectOf(m, FALSE) = EffectOf(m, TRUE)

\* C4: on a monitor whose content is defined, getContent(false) calls neither
\* getResource (nor computeHash) nor the transform, leaves hash and content
\* as they were and returns the stored content
C4_NoCheckReturnsCached ==
    LET all == AllCalls IN \A n \in DOMAIN all : LET c == all[n] IN
        (~c.arg /\ c.before.content # Undefined)
        => /\ ~c.checked
           /\ ~c.transformed
           /\ ~c.threw
           /\ c.after = c.before
           /\ c.ret = c.before.content

\* the Resource of monitor m, as it is now, is not the one whose hash is stored
ResourceChanged(m) ==
    LET r == getResource(Current, m)
    IN  r.threw \/ computeHash(m, r.val) # monitors[m].hash

\* getContent(false) has just returned the stored Content of a monitor whose
\* Resource has changed since the hash was stored
C4_Witness ==
    /\ calls # <<>>
    /\ LET c == calls[Len(calls)]
       IN  /\ ~c.arg /\ c.defined /\ c.found = "unchecked" /\ ~c.threw
           /\ ResourceChanged(c.mon)
           /\ monitors[c.mon].content # Undefined


\* C5: the webpage monitor makes at most one staleness check between two
\* ticks of its timer
C5_OneCheckPerWindow == checksInWindow <= 1

\* C6: a getContent(true) on the webpage monitor whose rerenderReady flag is
\* set checks for updates, and the flag is set again and again
C6_CheckAfterTimer ==
    /\ [](LET all == AllCalls IN \A n \in DOMAIN all : LET c == all[n] IN
             (c.mon = "webpage" /\ c.arg /\ c.before.rerenderReady)
             => c.checked /\ ~c.after.rerenderReady)
    /\ []<>(monitors.webpage.rerenderReady)

\* GET / has just checked anew, on a monitor that held a page, and found the
\* Resource changed
C6_Witness ==
    /\ server = "listening" /\ calls # <<>>
    /\ LET c == calls[Len(calls)]
       IN  /\ c.mon = "webpage" /\ c.arg /\ c.defined
           /\ c.found = "changed" /\ c.transformed /\ ~c.threw
    /\ ~monitors.webpage.rerenderReady

\* the page that a webpage monitor without history renders from the files
Fresh == [mon |-> NewMonitors, calls |-> <<>>, last |-> [m \in Monitors |-> NoCall]]

FreshRender == getContent(Fresh, "webpage", TRUE)

\* the files can be rendered
ValidFiles == ~FreshRender.threw

\* the last GET / was answered after the last change, with the page rendered
\* from the files as they are
ServedCurrent ==
    /\ response.at = changes
    /\ ~response.threw
    /\ response.body = FreshRender.val

\* GET / is requested again and again
GetIndexKeepsArriving == []<><<response'.seq # response.seq>>_vars

\* C7: after a change that leaves the files renderable, a GET / is answered
\* with the page rendered from them unless they change again, and from then
\* on every GET / is answered with that page until they change
C7_HotUpdate ==
    /\ GetIndexKeepsArriving
       => \A n \in 1..MaxChanges :
             (server = "listening" /\ changes = n /\ ValidFiles)
             ~> (changes # n \/ ServedCurrent)
    /\ [](ServedCurrent
          => LET r == getContent(Current, "webpage", TRUE)
             IN  ~r.threw /\ r.val = response.body)

\* GET / has been answered with the page of the changed files, rendered anew
\* by a monitor that held the page of the files before the change
C7_Witness ==
    /\ changes > 0 /\ ServedCurrent /\ calls # <<>>
    /\ LET c == calls[Len(calls)]
       IN  /\ c.mon = "webpage" /\ c.arg /\ c.defined
           /\ c.found = "changed" /\ c.transformed /\ ~c.threw


\* a GET / made now, and whether it renders the page
IndexNow == getContent(Current, "webpage", TRUE)

Rendered(r) == ~r.threw /\ r.st.calls[Len(r.st.calls)].transformed

\* the settings that the settings monitor holds after handler result r, and
\* the image paths collected with them
SettingsAfter(r) == r.st.mon.settings.content

CollectedAfter(r) == collectImagePaths(r.st).val

PathsOf(section) == [k \in 1..Len(section.images) |-> section.images[k].path]

\* C8: a rendered page has the sections Featured, the configured sections in
\* the order in which settings.sections declares them, and Photos; a
\* configured section shows the paths of its includes that were collected,
\* and Photos the collected paths that neither featured nor any includes list
C8_SectionsInDeclarationOrder ==
    LET r == IndexNow
    IN  Rendered(r) =>
        LET page == r.val
            declared == SettingsAfter(r).sections
            collected == Range(CollectedAfter(r))
            claimed == Range(SettingsAfter(r).featured) \cup
                UNION {Range(declared[k].section.includes) : k \in 1..Len(declared)}
        IN  /\ Len(page.sections) = Len(declared) + 2
            /\ page.sections[1].id = <<"featured">> \o SectionSuffix
            /\ \A k \in 1..Len(declared) :
                  /\ page.sections[k + 1].id = declared[k].name \o SectionSuffix
                  /\ page.sections[k + 1].title = declared[k].section.title
                  /\ Range(PathsOf(page.sections[k + 1]))
                         = Range(declared[k].section.includes) \cap collected
            /\ page.sections[Len(declared) + 2].id = <<"global">> \o SectionSuffix
            /\ Range(PathsOf(page.sections[Len(declared) + 2])) = collected \ claimed

\* the basename of path p matches an exclusion pattern of the settings
Excluded(p, settings) ==
    \E k \in 1..Len(settings.exclude) : RegExpTest(settings.exclude[k], basename(p))

\* the image paths in the <url> entries of a sitemap
SitemapPaths(sitemap) ==
    LET urls == ImageUrls(sitemap)
    IN  {Tail(urls[k]) : k \in 1..Len(urls)} \ {<<>>}

\* C9: no path whose basename matches an exclusion pattern of the settings is
\* collected by collectImagePaths, shown in a section of a rendered page, or
\* listed in a sitemap that the sitemap transform produces
C9_ExcludedNeverListed ==
    /\ LET c == collectImagePaths(Current)
       IN  ~c.threw => \A p \in Range(c.val) : ~Excluded(p, c.st.mon.settings.content)
    /\ LET r == IndexNow
       IN  Rendered(r) =>
           \A k \in 1..Len(r.val.sections) :
               \A p \in Range(PathsOf(r.val.sections[k])) : ~Excluded(p, SettingsAfter(r))
    /\ LET r == getContent(Current, "sitemap", TRUE)
       IN  Rendered(r) => \A p \in SitemapPaths(r.val) : ~Excluded(p, SettingsAfter(r))

\* a page has just been rendered with settings that feature an image which
\* is in the gallery and which they exclude
C9_Witness ==
    /\ calls # <<>>
    /\ LET c == calls[Len(calls)]
       IN  c.mon = "webpage" /\ c.transformed /\ ~c.threw
    /\ monitors.settings.content # Undefined
    /\ \E p \in Range(monitors.settings.content.featured) :
          gallery[p] > 0 /\ Excluded(p, monitors.settings.content)


\* the requests that went through compressAndGetImageCachePath
CacheRequests == {r \in 1..MaxReq : requests[r].pc # "idle" /\ requests[r].size # <<>>}

\* C10: compressAndGetImageCachePath starts the compression only when it
\* finds no file at the cache path; a call that finds one returns its path,
\* starts no compression and leaves the files of cache/ as they are; of two
\* calls for the same image and size, the second made after the first
\* returned, at most one starts the compression
C10_CompressOnlyWithoutCacheFile ==
    /\ [](\A r \in CacheRequests :
             /\ requests[r].spawned <=> ~requests[r].sawFile
             /\ requests[r].sawFile
                => /\ requests[r].pc = "done"
                   /\ requests[r].ret = RelativeCachePath(requests[r].cachePath)
             /\ \A q \in requests[r].after \cap CacheRequests :
                   (requests[q].path = requests[r].path /\ requests[q].size = requests[r].size)
                   => ~(requests[q].spawned /\ requests[r].spawned))
    /\ [][\A r \in 1..MaxReq :
             (requests[r].pc = "idle" /\ requests'[r].pc # "idle"
              /\ requests'[r].size # <<>> /\ cache[requests'[r].cachePath].exists)
             => /\ cache' = cache
                /\ ~requests'[r].spawned
                /\ requests'[r].pc = "done"]_vars

\* a request has been answered from the cache file that an earlier, answered
\* request for the same image and size had compressed, after the original
\* image was replaced
C10_Witness ==
    \E r \in CacheRequests :
        /\ requests[r].pc = "done" /\ requests[r].sawFile /\ ~requests[r].spawned
        /\ cache[requests[r].cachePath].version # gallery[requests[r].path]
        /\ cache[requests[r].cachePath].version > 0
        /\ \E q \in requests[r].after \cap CacheRequests :
              /\ requests[q].path = requests[r].path
              /\ requests[q].size = requests[r].size
              /\ requests[q].spawned /\ requests[q].pc = "done"


\* the requests whose compression ended in an error
FailedCompressions ==
    {r \in CacheRequests : requests[r].pc = "failed" /\ requests[r].spawned}

\* request q was made for the image and size of request r, after r was answered
LaterCallFor(q, r) ==
    /\ q \in CacheRequests
    /\ r \in requests[q].after
    /\ requests[q].path = requests[r].path
    /\ requests[q].size = requests[r].size

\* C11: when jpegoptim exits with an error the call is rejected and no file
\* is at the cache path afterwards, and a later call for the same image and
\* size finds no file and starts the compression again
C11_FailedCompressionLeavesNoFile ==
    /\ [](\A r \in FailedCompressions :
             /\ requests[r].ret = <<>>
             /\ \A q \in 1..MaxReq :
                   LaterCallFor(q, r) => ~requests[q].sawFile /\ requests[q].spawned)
    /\ [][\A r \in 1..MaxReq :
             (requests[r].pc = "running" /\ requests'[r].pc = "failed")
             => ~cache'[requests[r].cachePath].exists]_vars


\* the requests whose compression process has been started and has not exited
InFlight(cachePath) ==
    {r \in CacheRequests : /\ requests[r].pc \in {"spawned", "running"}
                           /\ requests[r].cachePath = cachePath}

\* C12: at no time are two compression processes that write to the same
\* cache path in flight
C12_OneCompressionInFlight ==
    \A cachePath \in CachePaths : Cardinality(InFlight(cachePath)) <= 1


\* C13: two calls of getImageCachePath with different (image path, size)
\* pairs, the size being one of the cache-sz list, return different cache
\* paths
C13_CachePathInjective ==
    \A i, j \in DOMAIN cachePathCalls :
        (\/ cachePathCalls[i].imagePath # cachePathCalls[j].imagePath
         \/ cachePathCalls[i].size # cachePathCalls[j].size)
        => cachePathCalls[i].ret # cachePathCalls[j].ret


\* dir with every path separator replaced by '_' and one leading '.' removed
Flattened(dir) ==
    LET replaced == [i \in 1..Len(dir) |-> IF dir[i] = "/" THEN "_" ELSE dir[i]]
    IN  IF Len(replaced) > 0 /\ replaced[1] = "." THEN Tail(replaced) ELSE replaced

\* <dir flattened>_<size>_<file> for the image path dir/file
CacheFileName(imagePath, size) ==
    Flattened(dirname(imagePath)) \o <<"_">> \o size \o <<"_">> \o basename(imagePath)

\* the cache file names and the cache paths of the images and sizes that are
\* requested, as tables
CacheFileNameOf ==
    [p \in MonitoredPaths, z \in Sizes |-> CacheFileName(p, z)]

CachePathOf ==
    [p \in MonitoredPaths, z \in Sizes |-> getImageCachePath(p, z)]

\* C14 as stated: the cache path of a request for dir/file and size s is
\* <cacheDir>/<dir flattened>_<s>_<file>, and compressAndGetImageCachePath
\* returns this path
C14_ReturnsCachePath ==
    \A r \in CacheRequests :
        /\ requests[r].cachePath
              = CACHE_DIR \o <<"/">> \o CacheFileNameOf[requests[r].path, requests[r].size]
        /\ requests[r].pc = "done" => requests[r].ret = requests[r].cachePath

\* C14: the cache path of a request for dir/file and size s is
\* <cacheDir>/<dir flattened>_<s>_<file>, and compressAndGetImageCachePath
\* returns it relative to the cache directory: <dir flattened>_<s>_<file>
C14_ReturnsPathRelativeToCacheDir ==
    \A r \in CacheRequests :
        /\ requests[r].cachePath
              = CACHE_DIR \o <<"/">> \o CacheFileNameOf[requests[r].path, requests[r].size]
        /\ requests[r].pc = "done"
           => /\ requests[r].ret = CacheFileNameOf[requests[r].path, requests[r].size]
              /\ CACHE_DIR \o <<"/">> \o requests[r].ret = requests[r].cachePath

\* the image x/b has been compressed to size 1 and its request answered, and
\* another request has been answered for an image of the top directory
C14_Witness ==
    /\ \E r \in CacheRequests :
          /\ requests[r].pc = "done" /\ requests[r].spawned
          /\ requests[r].path = PXB /\ requests[r].size = <<"1">>
          /\ requests[r].ret = <<"x", "_", "1", "_", "b">>
          /\ cache[<<"c", "/", "x", "_", "1", "_", "b">>].version > 0
    /\ \E r \in CacheRequests :
          requests[r].pc = "done" /\ requests[r].path = PA


\* the requests that were made
Made == {r \in 1..MaxReq : requests[r].pc # "idle"}

\* the cache-sz list of the Settings the server holds
ConfiguredList == monitors.settings.content.cacheSz

\* C15: a GET /image request goes to the cache file of its image and size
\* exactly when it asks for a size of the cache-sz list, and the path it then
\* sends is that of the cache file; a request for another size, or for no
\* size, sends the original image and starts no compression
C15_CacheIffConfiguredSize ==
    \A r \in Made :
        IF r \in CacheRequests
        THEN /\ Includes(ConfiguredList, requests[r].size)
             /\ requests[r].cachePath = CachePathOf[requests[r].path, requests[r].size]
             /\ requests[r].pc = "done"
                => requests[r].ret = RelativeCachePath(requests[r].cachePath)
        ELSE /\ ~("sz" \in DOMAIN requests[r].query
                  /\ Includes(ConfiguredList, requests[r].query.sz))
             /\ requests[r].pc = "done"
             /\ requests[r].ret = requests[r].path
             /\ ~requests[r].spawned

\* a request for a size of the list was answered with the cache file, one
\* for a size that is not in the list and one without a size were answered
\* with the original image
C15_Witness ==
    /\ \E r \in CacheRequests : requests[r].pc = "done" /\ requests[r].spawned
    /\ \E r \in Made \ CacheRequests :
          /\ "sz" \in DOMAIN requests[r].query
          /\ requests[r].ret = requests[r].path
    /\ \E r \in Made \ CacheRequests :
          /\ requests[r].query = NoSize
          /\ requests[r].ret = requests[r].path


\* C16: a getContent whose getResource throws, throws; it returns no Content,
\* and the hash and the content of the monitor are those of before the call
C16_ReadErrorPropagates ==
    LET all == AllCalls IN \A n \in DOMAIN all : LET c == all[n] IN
        (c.checked /\ ~ReadResource(c))
        => /\ c.threw
           /\ c.ret = Undefined
           /\ c.after.hash = c.before.hash
           /\ c.after.content = c.before.content

\* the last handler called getContent on a monitor that held Content, its
\* getResource threw and so did the call; the monitor still holds Content
C16_Witness ==
    /\ calls # <<>>
    /\ LET c == calls[Len(calls)]
       IN  /\ c.found = "failed" /\ c.threw /\ c.defined
           /\ monitors[c.mon].content # Undefined
           /\ monitors[c.mon].hash # Undefined


\* the getContent(true) on m that follows the getContent call r on m, the
\* files being as they were
Following(r, m) == getContent([r.st EXCEPT !.calls = <<>>], m, TRUE)

\* the outermost call of the getContent call r
TopCall(r) == r.st.calls[Len(r.st.calls)]

\* C17: a getContent whose transform throws, throws; the hash of the monitor
\* is then that of the Resource it read and the content is that of before
\* the call; the getContent(true) that follows it with the files unchanged
\* does not run the transform and returns that content
C17_TransformErrorKeepsHash ==
    /\ LET all == AllCalls IN \A n \in DOMAIN all : LET c == all[n] IN
          (c.transformed /\ c.threw)
          => /\ c.ret = Undefined
             /\ ReadResource(c)
             /\ c.after.hash = computeHash(c.mon, c.read[1])
             /\ c.after.content = c.before.content
    /\ \A m \in Monitors, checkUpdate \in BOOLEAN :
          LET r == getContent(Current, m, checkUpdate)
          IN  (TopCall(r).transformed /\ r.threw)
              => LET f == Following(r, m)
                 IN  /\ ~TopCall(f).transformed
                     /\ ~f.threw
                     /\ f.val = monitors[m].content
                     /\ f.st.mon[m].hash = r.st.mon[m].hash

\* the last handler called getContent on a monitor that held Content, the
\* Resource had changed and the transform threw: the monitor holds the hash
\* of the Resource on disk and its old Content
C17_Witness ==
    /\ calls # <<>>
    /\ LET c == calls[Len(calls)]
       IN  /\ c.found = "changed" /\ c.transformed /\ c.threw /\ c.defined
           /\ monitors[c.mon].content # Undefined
           /\ monitors[c.mon].hash = computeHash(c.mon, getResource(Current, c.mon).val)


\* C18: the sitemap that the transform produces for the collected image list
\* L holds the entries of SITEMAP, in order, followed by one entry per
\* element of L with the url image/<path>, and nothing else: for an empty L
\* it holds no image entry
C18_OneEntryPerImage ==
    LET r == getContent(Current, "sitemap", TRUE)
        L == collectImagePaths(Current)
    IN  (TopCall(r).transformed /\ ~r.threw /\ ~L.threw)
        => /\ Len(r.val.urls) = Len(SITEMAP) + Len(L.val)
           /\ \A i \in 1..Len(SITEMAP) :
                 r.val.urls[i].loc = [site |-> SettingsAfter(r).siteName, url |-> SITEMAP[i]]
           /\ \A i \in 1..Len(L.val) :
                 r.val.urls[Len(SITEMAP) + i].loc
                    = [site |-> SettingsAfter(r).siteName, url |-> <<"image/">> \o L.val[i]]


\* C19: the sitemap that GET /sitemap.xml returns carries today's date in
\* the lastmod of every entry
C19_LastmodIsToday ==
    server = "listening"
    => LET r == getContent(Current, "sitemap", TRUE)
       IN  (~r.threw /\ r.val # Undefined)
           => \A i \in 1..Len(r.val.urls) : r.val.urls[i].lastmod = today


\* C20: a getContent(true) on the webpage monitor made while rerenderReady is
\* true leaves it false, whether the check found a change, found none or
\* threw; every other getContent on the webpage monitor leaves the flag as it
\* was; the flag goes from false to true in steps of the timer only
C20_RerenderReadyFrame ==
    /\ [](LET all == AllCalls IN \A n \in DOMAIN all : LET c == all[n] IN
             c.mon = "webpage"
             => IF c.arg /\ c.before.rerenderReady
                THEN ~c.after.rerenderReady
                ELSE c.after.rerenderReady = c.before.rerenderReady)
    /\ [][(~monitors.webpage.rerenderReady /\ monitors'.webpage.rerenderReady)
          => Timer]_vars

\* GET / has just called getContent(true) on a webpage monitor that held a
\* page, the check threw, and rerenderReady is false
C20_Witness ==
    /\ server = "listening" /\ calls # <<>>
    /\ LET c == calls[Len(calls)]
       IN  /\ c.mon = "webpage" /\ c.arg /\ c.defined
           /\ c.found = "failed" /\ c.threw
    /\ ~monitors.webpage.rerenderReady


\* C21: a staleness check of the webpage monitor is made no sooner than
\* RERENDER_INTERVAL after the staleness check before it
C21_ChecksOneIntervalApart == lastGap >= RERENDER_INTERVAL


\* C22 as stated: the Featured section of a rendered page shows every path of
\* settings.featured
C22_FeaturedShowsEveryPath ==
    LET r == IndexNow
    IN  Rendered(r) =>
        Range(SettingsAfter(r).featured) \subseteq Range(PathsOf(r.val.sections[1]))

\* C22: the Featured section of a rendered page is the first section and
\* shows the paths of settings.featured that were collected, in the order of
\* settings.featured, and no other path
C22_FeaturedShowsCollectedPaths ==
    LET r == IndexNow
    IN  Rendered(r) =>
        /\ r.val.sections[1].id = <<"featured">> \o SectionSuffix
        /\ PathsOf(r.val.sections[1])
              = FilterSeq(SettingsAfter(r).featured, Range(CollectedAfter(r)))

\* GET / has just rendered a page with settings that feature an image which
\* is not in the gallery: the Featured section of the page does not show it
C22_Witness ==
    /\ server = "listening" /\ calls # <<>>
    /\ calls[Len(calls)].mon = "webpage" /\ calls[Len(calls)].transformed
    /\ ~response.threw /\ response.body # Undefined
    /\ \E p \in Range(monitors.settings.content.featured) :
          /\ gallery[p] = 0
          /\ p \notin Range(PathsOf(response.body.sections[1]))


\* the staleness check that the webpage monitor makes in the current state
\* when it is due, in its two steps: got is the result of getResource, and
\* rendered that of the transform that follows it when the hash has changed
WebpageCheckNow ==
    LET g == getResource([Current EXCEPT !.mon.webpage.rerenderReady = FALSE], "webpage")
    IN  IF g.threw \/ computeHash("webpage", g.val) = monitors.webpage.hash
        THEN [renders |-> FALSE, got |-> g, rendered |-> g]
        ELSE [renders |-> TRUE, got |-> g,
              rendered |-> transformResourceToContent(
                               [g.st EXCEPT !.mon.webpage.hash =
                                                computeHash("webpage", g.val)],
                               "webpage", g.val)]

\* the getContent calls made during the transform of the check k
CallsOfTransform(k) ==
    SubSeq(k.rendered.st.calls, Len(k.got.st.calls) + 1, Len(k.rendered.st.calls))

\* C23 as stated: the webpage transform makes no staleness check of the
\* settings monitor and leaves its hash and content as they were when the
\* transform started
C23_RenderLeavesSettingsAlone ==
    LET k == WebpageCheckNow
    IN  k.renders =>
        /\ \A i \in DOMAIN CallsOfTransform(k) :
              CallsOfTransform(k)[i].mon = "settings" => ~CallsOfTransform(k)[i].checked
        /\ k.rendered.st.mon.settings = k.got.st.mon.settings

\* C23: the webpage transform starts with a getContent(true) on the settings
\* monitor, which makes a staleness check; when the transform returns, the
\* settings monitor holds the hash of the settings file as it is now (and,
\* the file being well-formed, its document), and the page is rendered with
\* the Settings the monitor then holds
C23_RenderChecksSettings ==
    LET k == WebpageCheckNow
    IN  k.renders =>
        /\ CallsOfTransform(k) # <<>>
        /\ CallsOfTransform(k)[1].mon = "settings"
        /\ CallsOfTransform(k)[1].arg
        /\ CallsOfTransform(k)[1].checked
        /\ ~k.rendered.threw
           => /\ k.rendered.st.mon.settings.hash = computeHash("settings", settingsFile)
              /\ settingsFile.wellFormed
                 => k.rendered.st.mon.settings.content = settingsFile.doc
              /\ PathsOf(k.rendered.val.sections[1])
                    = FilterSeq(k.rendered.st.mon.settings.content.featured,
                                Range(CollectedAfter(k.rendered)))

\* GET / has just rendered a page while the gallery held no file, and the
\* settings monitor, which held Content, holds another hash or other Content
\* since: the transform has read the settings anew
C23_Witness ==
    /\ server = "listening" /\ calls # <<>>
    /\ LET c == calls[Len(calls)]
       IN  c.mon = "webpage" /\ c.transformed /\ ~c.threw /\ c.reread
    /\ \A p \in Range(GalleryPaths) : gallery[p] = 0
    /\ monitors.settings.content = settingsFile.doc


\* C24 as stated: once the settings monitor holds Content, no request that
\* the server answers changes its hash or its content
C24_ServingNeverRereadsSettings ==
    [][monitors.settings.content # Undefined
       => monitors'.settings = monitors.settings]_vars

\* C24: on a settings monitor that holds Content, a getContent makes the
\* staleness check exactly when its checkUpdate is true, which it is by
\* default, and getContent(false), which is what getSettings() calls, leaves
\* the monitor as it is; GET /sitemap.xml with a file in the gallery and a
\* readable settings file leaves the hash of that file in the settings
\* monitor; the server changes the settings monitor that holds Content in
\* answering GET / and GET /sitemap.xml only, and the hash is then that of
\* the settings file
C24_DefaultCheckRereadsSettings ==
    /\ [](LET all == AllCalls IN \A n \in DOMAIN all : LET c == all[n] IN
             (c.mon = "settings" /\ c.before.content # Undefined)
             => /\ c.checked <=> c.arg
                /\ ~c.arg => c.after = c.before /\ c.ret = c.before.content)
    /\ [](monitors.settings.content # Undefined
          => getSettings(Current, FALSE).st.mon = monitors)
    /\ [](LET r == getContent(Current, "sitemap", TRUE)
          IN  (settingsFile.exists /\ \E p \in Range(GalleryPaths) : gallery[p] > 0)
              => r.st.mon.settings.hash = computeHash("settings", settingsFile))
    /\ [][(monitors.settings.content # Undefined
           /\ monitors'.settings # monitors.settings)
          => /\ calls' # <<>>
             /\ calls'[1].mon \in {"webpage", "sitemap"}
             /\ calls'[1].reread
             /\ monitors'.settings.hash = computeHash("settings", settingsFile)]_vars

\* GET /sitemap.xml has just been answered, and the settings monitor, which
\* held Content, holds the document of an edited settings file since
C24_Witness ==
    /\ server = "listening" /\ calls # <<>>
    /\ calls[Len(calls)].mon = "sitemap" /\ calls[Len(calls)].reread
    /\ ~calls[Len(calls)].threw
    /\ changes > 0
    /\ monitors.settings.content = settingsFile.doc


\* the getContent(checkUpdate) on m of the handler that runs after the
\* getContent call r on m has returned or thrown, the files being as they
\* were; tick: the setInterval callback has run between the two handlers
NextHandler(r, m, checkUpdate, tick) ==
    getContent([r.st EXCEPT !.calls = <<>>,
                            !.mon.webpage.rerenderReady = (tick \/ @)],
               m, checkUpdate)

\* two handlers that call getContent on the same monitor one after the other,
\* the files being as they were, both run the transform
TransformRunsTwice ==
    \E m \in Monitors, b1 \in BOOLEAN, b2 \in BOOLEAN, tick \in BOOLEAN :
        LET r == getContent(Current, m, b1)
        IN  /\ TopCall(r).transformed
            /\ TopCall(NextHandler(r, m, b2, tick)).transformed

\* C25 as stated: a state in which the transform ran twice for one change of
\* the Resource is reached
C25_TransformRacesTwice == <>TransformRunsTwice

\* C25: a handler runs its getContent to the end before the next handler
\* starts, and of two handlers that call getContent on the same monitor for
\* one change of the Resource, the first runs the transform and stores the
\* hash, and the second finds the stored hash (or makes no check) and does
\* not run the transform
C25_TransformOncePerChange ==
    \A m \in Monitors, b1 \in BOOLEAN, b2 \in BOOLEAN, tick \in BOOLEAN :
        LET r == getContent(Current, m, b1)
        IN  TopCall(r).transformed
            => LET f == NextHandler(r, m, b2, tick)
               IN  /\ ~TopCall(f).transformed
                   /\ f.st.mon[m].hash = r.st.mon[m].hash
                   /\ f.st.mon[m].content = r.st.mon[m].content

\* a GET / has just been answered after the files changed, on a monitor that
\* held the page an earlier GET / had rendered from these files: it checked,
\* found the stored hash, did not run the transform and returned that page
C25_Witness ==
    /\ server = "listening" /\ changes > 0 /\ calls # <<>>
    /\ LET c == calls[Len(calls)]
       IN  /\ c.mon = "webpage" /\ c.arg /\ c.defined
           /\ c.found = "same" /\ ~c.transformed /\ ~c.threw
    /\ response.at = changes
    /\ response.body = monitors.webpage.content
    /\ ServedCurrent


\* C26: a getContent that returns normally returns Content, not undefined
C26_ReturnsDefinedContent ==
    LET all == AllCalls IN \A n \in DOMAIN all : LET c == all[n] IN
        ~c.threw => c.ret # Undefined


\* the sections of page that settings declared under the given name
SectionsNamed(page, name) ==
    {k \in 1..Len(page.sections) : page.sections[k].id = name \o SectionSuffix}

\* C27: in a rendered page every collected path is shown in at least one
\* section; no path of the Photos section is listed in featured or in the
\* includes of a configured section; a collected path that featured lists is
\* shown in Featured, and one that the includes of a configured section list
\* is shown in that section, whatever other section shows it too
C27_EveryCollectedPathShown ==
    LET r == IndexNow
    IN  Rendered(r) =>
        LET page == r.val
            declared == SettingsAfter(r).sections
            collected == Range(CollectedAfter(r))
            photos == page.sections[Len(page.sections)]
        IN  /\ \A p \in collected :
                  \E k \in 1..Len(page.sections) : p \in Range(PathsOf(page.sections[k]))
            /\ photos.id = <<"global">> \o SectionSuffix
            /\ \A p \in Range(PathsOf(photos)) :
                  /\ p \notin Range(SettingsAfter(r).featured)
                  /\ \A k \in 1..Len(declared) :
                        p \notin Range(declared[k].section.includes)
            /\ \A p \in collected :
                  /\ p \in Range(SettingsAfter(r).featured)
                     => p \in Range(PathsOf(page.sections[1]))
                  /\ \A k \in 1..Len(declared) :
                        p \in Range(declared[k].section.includes)
                        => \E j \in SectionsNamed(page, declared[k].name) :
                              p \in Range(PathsOf(page.sections[j]))

\* GET / has just rendered a page in which one image is shown in Featured and
\* in a configured section, and another, which neither lists, in Photos
C27_Witness ==
    /\ server = "listening" /\ calls # <<>>
    /\ calls[Len(calls)].mon = "webpage" /\ calls[Len(calls)].transformed
    /\ ~response.threw /\ response.body # Undefined
    /\ LET secs == response.body.sections
       IN  /\ Len(secs) >= 3
           /\ \E p \in Range(PathsOf(secs[1])) : p \in Range(PathsOf(secs[2]))
           /\ PathsOf(secs[Len(secs)]) # <<>>


\* C28: the sitemap that GET /sitemap.xml returns carries, in every <loc>,
\* the site-name of the settings that the settings monitor holds when the
\* handler returns
C28_LocHasCurrentSiteName ==
    server = "listening"
    => LET r == getContent(Current, "sitemap", TRUE)
       IN  (~r.threw /\ r.val # Undefined)
           => \A i \in 1..Len(r.val.urls) :
                 r.val.urls[i].loc.site = SettingsAfter(r).siteName


\* C29: no GET /image request is answered, with the original or with a cache
\* file, for an image of the gallery whose basename matches an exclusion
\* pattern of the settings the server holds
C29_ExcludedNeverServed ==
    monitors.settings.content # Undefined
    => \A r \in Made :
          (requests[r].pc = "done" /\ gallery[requests[r].path] > 0)
          => ~Excluded(requests[r].path, monitors.settings.content)

=============================================================================
